---------------------------- MODULE Spec2Model ----------------------------
(***************************************************************************)
(* Session layer of CypherPoker.JS:                                        *)
(*   - the server's WebSocket session registry and its WSS_Handshake       *)
(*     endpoint (namespace.websocket.connections, WSS_Handshake,           *)
(*     makeConnectionID, makePrivateID, handshakeOK, allSessions);         *)
(*   - the client's reply correlation loop                                 *)
(*     (CypherPokerContract.callContractAPI).                              *)
(*                                                                         *)
(* A connection record is [user_token, server_token, socket]; the          *)
(* last_update timestamp is written once and never read by the modelled    *)
(* code, so it is left out.  User and server tokens are opaque strings;    *)
(* they are numbered in the registry part and spelled out character by     *)
(* character where makePrivateID concatenates them.                        *)
(***************************************************************************)
EXTENDS Integers, Sequences, FiniteSets, TLC

VARIABLES
    max_ws_per_ip,        \* rpc_options.max_ws_per_ip
    http_only_handshake,  \* rpc_options.http_only_handshake
    connectionsDefined,   \* FALSE while namespace.websocket.connections is undefined
    connections,          \* namespace.websocket.connections: connectionID -> array of records
    op,                   \* the server function that ran last
    sessionObj,           \* its argument
    sent,                 \* the responses it sent (sendResult / sendError), in order
    ret,                  \* what it returned
    \* client side: CypherPokerContract.callContractAPI on one socket
    pc,                   \* where each call stands
    requestID,            \* the request ID each call generated
    result,               \* the message each call parsed last
    consumed,             \* every message each call's awaits received, in order
    outbound,             \* requests sent on the socket
    inbound,              \* messages that arrived on the socket and wait for an await
    arrived,              \* every message that ever arrived on the socket
    \* makePrivateID
    pidArgs,              \* <<server_token, user_token>> of the last call
    pidCalls,             \* how many times it was called with them
    pidResult,            \* what it returned
    \* WSS_Handshake invocations in flight on the server's event loop
    hpc,                  \* where each invocation stands
    hreq,                 \* its sessionObj
    hread,                \* the registry as its duplicate scan read it
    hnum,                 \* its local num_activeconnections after the scan
    hsent,                \* the responses it sent
    \* allSessions
    listArg,              \* the argument of the last call
    sessions              \* the array it returned

serverVars == <<max_ws_per_ip, http_only_handshake, connectionsDefined,
                connections, op, sessionObj, sent, ret>>

clientVars == <<pc, requestID, result, consumed, outbound, inbound, arrived>>

pidVars == <<pidArgs, pidCalls, pidResult>>

handlerVars == <<hpc, hreq, hread, hnum, hsent>>

listVars == <<listArg, sessions>>

auxVars == <<handlerVars, listVars>>

vars == <<serverVars, clientVars, pidVars, handlerVars, listVars>>

---------------------------------------------------------------------------
(* Bounds *)

MaxPeers == 2          \* remote addresses that send requests
MaxUserTokens == 2     \* distinct user_token strings clients choose from
MaxServerTokens == 1   \* distinct values Math.random() may produce
MaxCap == 2            \* max_ws_per_ip is configured in 0..MaxCap
MaxCalls == 2          \* invocations of callContractAPI
MaxIds == 3            \* distinct JSON-RPC ids ("X", "Y", "Z")
MaxArrivals == 3       \* messages the socket receives
MaxTokenLen == 3       \* characters of a token handed to makePrivateID
MaxHandlers == 2       \* WSS_Handshake invocations in flight together

Peers == {[remoteFamily |-> "IPv4", remoteAddress |-> a] : a \in 1..MaxPeers}
UserTokens == 1..MaxUserTokens
ServerTokens == 1..MaxServerTokens
\* What a client may claim as its server token: 0 is a string the server
\* never generated.
ClaimedServerTokens == 0..MaxServerTokens

HTTP == <<"h", "t", "t", "p">>
HTTPS == <<"h", "t", "t", "p", "s">>
WS == <<"w", "s">>
Endpoints == {HTTPS, WS}

null == "null"

Handlers == 1..MaxHandlers
noRequest == [none |-> TRUE]

---------------------------------------------------------------------------
(* Helpers of the handshake endpoint *)

\* String.prototype.startsWith
startsWith(str, prefix) ==
    /\ Len(str) >= Len(prefix)
    /\ SubSeq(str, 1, Len(prefix)) = prefix

\* makeConnectionID: the core socket is serverRequest.socket for an HTTP
\* request and serverRequest._socket for a WebSocket one.
makeConnectionID(so) ==
    LET socket == IF "socket" \in DOMAIN so.serverRequest
                  THEN so.serverRequest.socket
                  ELSE so.serverRequest._socket
    IN <<socket.remoteFamily, ":", socket.remoteAddress>>

\* The session objects the transport layer hands to the endpoint functions.
serverRequestOf(endpoint, peer) ==
    IF startsWith(endpoint, HTTP) THEN [socket |-> peer] ELSE [_socket |-> peer]

HandshakeRequests ==
    {[endpoint |-> e,
      serverRequest |-> serverRequestOf(e, p),
      requestObj |-> [params |-> [user_token |-> u]]] :
        e \in Endpoints, p \in Peers, u \in UserTokens}

ValidationRequests ==
    {[endpoint |-> e,
      serverRequest |-> serverRequestOf(e, p),
      requestObj |-> [params |-> [user_token |-> u, server_token |-> s]]] :
        e \in {WS}, p \in Peers, u \in UserTokens, s \in ClaimedServerTokens}

\* The transport test without its configuration flag.
wrongTransportAlways(endpoint, http_only) ==
    startsWith(endpoint, HTTP) = FALSE

\* The first branch of WSS_Handshake.
wrongTransport(endpoint, http_only) ==
    (startsWith(endpoint, HTTP) = FALSE) /\ http_only

\* The scan looking at the first record of each connection ID only.
tokenExistsFirstOnly(conns, user_token) ==
    \E item \in DOMAIN conns :
        \E count \in 1..Len(conns[item]) :
            count = 1 /\ conns[item][count].user_token = user_token

\* The scan confined to the connection ID it meets first.
tokenExistsOneID(conns, user_token) ==
    /\ DOMAIN conns # {}
    /\ LET item == CHOOSE i \in DOMAIN conns : TRUE
       IN \E count \in 1..Len(conns[item]) :
             conns[item][count].user_token = user_token

\* The scan over every record of every connection ID: does one carry
\* this user token?
tokenExists(conns, user_token) ==
    \E item \in DOMAIN conns :
        \E count \in 1..Len(conns[item]) :
            conns[item][count].user_token = user_token

RECURSIVE sumLengths(_, _)
sumLengths(conns, items) ==
    IF items = {} THEN 0
    ELSE LET item == CHOOSE i \in items : TRUE
         IN Len(conns[item]) + sumLengths(conns, items \ {item})

\* num_activeconnections once the scan has run to its end.
countAll(conns) == sumLengths(conns, DOMAIN conns)

sendError(code, message, data) ==
    [kind |-> "error", code |-> code, message |-> message, data |-> data]

sendResult(responseObj) ==
    [kind |-> "result", result |-> responseObj]

noData == [none |-> TRUE]

---------------------------------------------------------------------------
(* The client's socket and calls *)

Calls == 1..MaxCalls
Ids == 1..MaxIds

noMessage == [id |-> 0, n |-> 0]

\* The n-th message to arrive, carrying a JSON-RPC id.
Message(id, n) == [id |-> id, n |-> n]

\* The loop test of callContractAPI, inverted.
notOursInverted(rid, res) == rid = res.id

\* The loop test of callContractAPI, never true.
notOursNever(rid, res) == FALSE

\* The loop test of callContractAPI: requestID != result.id
notOurs(rid, res) == rid # res.id

---------------------------------------------------------------------------
(* makePrivateID and the values it is called with *)

Alphabet == {"a", "b", ":"}

RECURSIVE stringsOfLen(_)
stringsOfLen(n) ==
    IF n = 0 THEN {<<>>}
    ELSE {Append(s, ch) : s \in stringsOfLen(n - 1), ch \in Alphabet}

Strings == UNION {stringsOfLen(n) : n \in 0..MaxTokenLen}

\* A JavaScript value: what typeof says of it, and its characters if it
\* is a string.
jsString(chars) == [type |-> "string", chars |-> chars]
jsNull == [type |-> "object", chars |-> <<"null">>]
jsUndefined == [type |-> "undefined", chars |-> <<>>]
jsNumber == [type |-> "number", chars |-> <<>>]

JSValues == {jsString(s) : s \in Strings} \cup {jsNull, jsUndefined, jsNumber}

\* SHA-256 in hexadecimal, taken as a one-to-one function of its input.
sha256hex(chars) == [type |-> "string", chars |-> <<"sha256">> \o chars]

\* makePrivateID hashing the two tokens with no separator between them.
makePrivateIDNoSeparator(server_token, user_token) ==
    IF server_token.type # "string" THEN jsNull
    ELSE IF user_token.type # "string" THEN jsNull
    ELSE IF Len(server_token.chars) = 0 THEN jsNull
    ELSE IF Len(user_token.chars) = 0 THEN jsNull
    ELSE sha256hex(server_token.chars \o user_token.chars)

\* makePrivateID letting an empty user_token through to the hash.
makePrivateIDEmptyUserToken(server_token, user_token) ==
    IF server_token.type # "string" THEN jsNull
    ELSE IF user_token.type # "string" THEN jsNull
    ELSE IF Len(server_token.chars) = 0 THEN jsNull
    ELSE sha256hex(server_token.chars \o <<":">> \o user_token.chars)

makePrivateID(server_token, user_token) ==
    IF server_token.type # "string" THEN jsNull
    ELSE IF user_token.type # "string" THEN jsNull
    ELSE IF Len(server_token.chars) = 0 THEN jsNull
    ELSE IF Len(user_token.chars) = 0 THEN jsNull
    ELSE sha256hex(server_token.chars \o <<":">> \o user_token.chars)

---------------------------------------------------------------------------
(* Operations *)

\* The client and makePrivateID before anything ran.
InitClient ==
    /\ pc = [c \in Calls |-> "idle"]
    /\ requestID = [c \in Calls |-> 0]
    /\ result = [c \in Calls |-> noMessage]
    /\ consumed = [c \in Calls |-> <<>>]
    /\ outbound = <<>>
    /\ inbound = <<>>
    /\ arrived = <<>>

InitPrivateID ==
    /\ pidArgs = <<>>
    /\ pidCalls = 0
    /\ pidResult = jsNull

\* The registry as the module's last lines leave it: namespace.websocket
\* is an object, its connections property is not set.
InitRegistry ==
    /\ connectionsDefined = FALSE
    /\ connections = <<>>
    /\ op = "none"
    /\ sessionObj = [none |-> TRUE]
    /\ sent = <<>>
    /\ ret = "undefined"

\* No handshake request has arrived, allSessions was not called.
InitHandlers ==
    /\ hpc = [h \in Handlers |-> "idle"]
    /\ hreq = [h \in Handlers |-> noRequest]
    /\ hread = [h \in Handlers |-> <<>>]
    /\ hnum = [h \in Handlers |-> 0]
    /\ hsent = [h \in Handlers |-> <<>>]

InitListing ==
    /\ listArg = "none"
    /\ sessions = <<>>

Init ==
    /\ InitClient
    /\ InitPrivateID
    /\ InitRegistry
    /\ InitHandlers
    /\ InitListing
    /\ max_ws_per_ip \in 0..MaxCap
    /\ http_only_handshake \in BOOLEAN

\* The same with one configuration, for the parts that do not read it.
InitIdle ==
    /\ InitClient
    /\ InitPrivateID
    /\ InitRegistry
    /\ InitHandlers
    /\ InitListing
    /\ max_ws_per_ip = 0
    /\ http_only_handshake = FALSE

\* WSS_Handshake with two of its statements open to replacement: whether
\* the branch for an existing array starts a new array as the other branch
\* does, and whether the capacity rejection is sent.
WSS_HandshakeWith(so, random, newArray, silent) ==
    LET user_token == so.requestObj.params.user_token
        connectionID == makeConnectionID(so)
        server_token == random
        connectionObj == [user_token |-> user_token, socket |-> null,
                          server_token |-> server_token]
        accept(numconnections, peerconnections) ==
            <<sendResult([message |-> "accept",
                          numconnections |-> numconnections,
                          maxconnections |-> max_ws_per_ip,
                          peerconnections |-> peerconnections,
                          server_token |-> server_token])>>
    IN
    /\ op' = "WSS_Handshake"
    /\ sessionObj' = so
    /\ UNCHANGED <<max_ws_per_ip, http_only_handshake, clientVars, pidVars, auxVars>>
    /\ IF wrongTransport(so.endpoint, http_only_handshake)
       THEN /\ sent' = <<sendError("WRONG_TRANSPORT",
                           "Session handshake must be made through HTTP / HTTPS service.",
                           noData)>>
            /\ ret' = "false"
            /\ UNCHANGED <<connectionsDefined, connections>>
       ELSE
       /\ connectionsDefined' = TRUE
       /\ IF tokenExists(connections, user_token)
          THEN /\ sent' = <<sendError("SESSION_CLOSE",
                              "User token already exists for your IP.", noData)>>
               /\ ret' = "undefined"
               /\ UNCHANGED connections
          ELSE
          IF connectionID \notin DOMAIN connections
          THEN /\ connections' =
                     [item \in DOMAIN connections \cup {connectionID} |->
                         IF item = connectionID THEN <<connectionObj>>
                         ELSE connections[item]]
               /\ sent' = accept(1, countAll(connections) + 1)
               /\ ret' = "true"
          ELSE LET num_activeconnections == Len(connections[connectionID])
               IN IF num_activeconnections >= max_ws_per_ip
                  THEN /\ sent' = IF silent THEN <<>>
                                  ELSE <<sendError("SESSION_CLOSE",
                                           "Too many connections from your IP.",
                                           [numconnections |-> num_activeconnections,
                                            maxconnections |-> max_ws_per_ip])>>
                       /\ ret' = "true"
                       /\ UNCHANGED connections
                  ELSE /\ connections' =
                             [connections EXCEPT ![connectionID] =
                                 IF newArray THEN <<connectionObj>>
                                 ELSE Append(@, connectionObj)]
                       /\ sent' = accept(num_activeconnections + 1,
                                         num_activeconnections + 1)
                       /\ ret' = "true"

\* WSS_Handshake starting a new array for an identity that has one.
WSS_HandshakeNewArray(so, random) == WSS_HandshakeWith(so, random, TRUE, FALSE)

\* WSS_Handshake building the capacity rejection and not sending it.
WSS_HandshakeSilentRejection(so, random) == WSS_HandshakeWith(so, random, FALSE, TRUE)

WSS_Handshake(so, random) ==
    LET user_token == so.requestObj.params.user_token
        connectionID == makeConnectionID(so)
        server_token == random
        connectionObj == [user_token |-> user_token, socket |-> null,
                          server_token |-> server_token]
    IN
    /\ op' = "WSS_Handshake"
    /\ sessionObj' = so
    /\ UNCHANGED <<max_ws_per_ip, http_only_handshake, clientVars, pidVars, auxVars>>
    /\ IF wrongTransport(so.endpoint, http_only_handshake)
       THEN /\ sent' = <<sendError("WRONG_TRANSPORT",
                           "Session handshake must be made through HTTP / HTTPS service.",
                           noData)>>
            /\ ret' = "false"
            /\ UNCHANGED <<connectionsDefined, connections>>
       ELSE
       /\ connectionsDefined' = TRUE
       /\ IF tokenExists(connections, user_token)
          THEN /\ sent' = <<sendError("SESSION_CLOSE",
                              "User token already exists for your IP.", noData)>>
               /\ ret' = "undefined"
               /\ UNCHANGED connections
          ELSE
          IF connectionID \notin DOMAIN connections
          THEN \* no array for this connection ID yet
               LET num_activeconnections == countAll(connections) + 1
               IN /\ connections' =
                        [item \in DOMAIN connections \cup {connectionID} |->
                            IF item = connectionID THEN <<connectionObj>>
                            ELSE connections[item]]
                  /\ sent' = <<sendResult(
                        [message |-> "accept",
                         numconnections |-> 1,
                         maxconnections |-> max_ws_per_ip,
                         peerconnections |-> num_activeconnections,
                         server_token |-> server_token])>>
                  /\ ret' = "true"
          ELSE LET num_activeconnections == Len(connections[connectionID])
               IN IF num_activeconnections >= max_ws_per_ip
                  THEN /\ sent' = <<sendError("SESSION_CLOSE",
                                      "Too many connections from your IP.",
                                      [numconnections |-> num_activeconnections,
                                       maxconnections |-> max_ws_per_ip])>>
                       /\ ret' = "true"
                       /\ UNCHANGED connections
                  ELSE /\ connections' =
                             [connections EXCEPT ![connectionID] =
                                 Append(@, connectionObj)]
                       /\ sent' = <<sendResult(
                             [message |-> "accept",
                              numconnections |-> num_activeconnections + 1,
                              maxconnections |-> max_ws_per_ip,
                              peerconnections |-> num_activeconnections + 1,
                              server_token |-> server_token])>>
                       /\ ret' = "true"

Handshake == \E so \in HandshakeRequests, random \in ServerTokens :
                 WSS_Handshake(so, random)

\* handshakeOK, with a server token the request does not even look at.
handshakeOKUserTokenOnly(conns, defined, so) ==
    LET connectionID == makeConnectionID(so)
    IN IF ~defined THEN "TypeError"
       ELSE IF connectionID \notin DOMAIN conns THEN "false"
       ELSE IF \E count \in 1..Len(conns[connectionID]) :
                  conns[connectionID][count].user_token
                      = so.requestObj.params.user_token
            THEN "true" ELSE "false"

\* handshakeOK looking for the token pair under every connection ID.
handshakeOKAnyIdentity(conns, defined, so) ==
    LET params == so.requestObj.params
    IN IF ~defined THEN "TypeError"
       ELSE IF \E item \in DOMAIN conns : \E count \in 1..Len(conns[item]) :
                  /\ conns[item][count].user_token = params.user_token
                  /\ conns[item][count].server_token = params.server_token
            THEN "true" ELSE "false"

\* handshakeOK: "true" / "false" for its return value, "TypeError" when
\* indexing namespace.websocket.connections throws because it is undefined.
handshakeOK(conns, defined, so) ==
    LET connectionID == makeConnectionID(so)
        params == so.requestObj.params
    IN IF ~defined THEN "TypeError"
       ELSE IF connectionID \notin DOMAIN conns THEN "false"
       ELSE IF Len(conns[connectionID]) = 0 THEN "false"
       ELSE LET hits == {count \in 1..Len(conns[connectionID]) :
                            conns[connectionID][count].user_token = params.user_token}
            IN IF hits = {} THEN "false"
               ELSE LET first == CHOOSE c \in hits : \A d \in hits : c <= d
                    IN IF conns[connectionID][first].server_token = params.server_token
                       THEN "true" ELSE "false"

HandshakeOK == \E so \in ValidationRequests :
    /\ op' = "handshakeOK"
    /\ sessionObj' = so
    /\ ret' = handshakeOK(connections, connectionsDefined, so)
    /\ sent' = <<>>
    /\ UNCHANGED <<max_ws_per_ip, http_only_handshake, connectionsDefined,
                   connections, clientVars, pidVars, auxVars>>

Next == Handshake \/ HandshakeOK

Spec == Init /\ [][Next]_vars

---------------------------------------------------------------------------
(* callContractAPI *)

\* Lines 107-115 up to the await: build the request, draw the request ID,
\* send it through RPC.
StartCall(c, random) ==
    /\ pc[c] = "idle"
    /\ \A d \in Calls : d < c => pc[d] # "idle"   \* calls are numbered as they start
    /\ requestID' = [requestID EXCEPT ![c] = random]
    /\ outbound' = Append(outbound, [id |-> random])
    /\ pc' = [pc EXCEPT ![c] = "awaitRPC"]
    /\ UNCHANGED <<result, consumed, inbound, arrived, serverVars, pidVars, auxVars>>

\* The socket's await-next-message: the oldest message not yet taken.
nextMessage(queue) == Head(queue)

\* A waiter that hands a message that is not its own back to the socket.
ReceiveAndPutBack(c) ==
    /\ pc[c] \in {"awaitRPC", "awaitMessage"}
    /\ inbound # <<>>
    /\ LET rpc_result == nextMessage(inbound)
       IN /\ inbound' = IF notOurs(requestID[c], rpc_result)
                         THEN Append(Tail(inbound), rpc_result)
                         ELSE Tail(inbound)
          /\ consumed' = [consumed EXCEPT ![c] = Append(@, rpc_result)]
          /\ result' = [result EXCEPT ![c] = rpc_result]
          /\ pc' = [pc EXCEPT ![c] =
                       IF notOurs(requestID[c], rpc_result)
                       THEN "awaitMessage" ELSE "done"]
    /\ UNCHANGED <<requestID, outbound, arrived, serverVars, pidVars, auxVars>>

\* One await of the call returns: the message is parsed and compared with
\* the request ID; the call returns it or awaits again.
Receive(c) ==
    /\ pc[c] \in {"awaitRPC", "awaitMessage"}
    /\ inbound # <<>>
    /\ LET rpc_result == nextMessage(inbound)
       IN /\ inbound' = Tail(inbound)
          /\ consumed' = [consumed EXCEPT ![c] = Append(@, rpc_result)]
          /\ result' = [result EXCEPT ![c] = rpc_result]
          /\ pc' = [pc EXCEPT ![c] =
                       IF notOurs(requestID[c], rpc_result)
                       THEN "awaitMessage" ELSE "done"]
    /\ UNCHANGED <<requestID, outbound, arrived, serverVars, pidVars, auxVars>>

\* The peer sends a message: a reply to a request or anything else.
Arrive(id) ==
    /\ Len(arrived) < MaxArrivals
    /\ LET m == Message(id, Len(arrived) + 1)
       IN /\ arrived' = Append(arrived, m)
          /\ inbound' = Append(inbound, m)
    /\ UNCHANGED <<pc, requestID, result, consumed, outbound, serverVars, pidVars, auxVars>>

\* Calls may overlap.
Call == \E c \in Calls, random \in Ids : StartCall(c, random)
Await == \E c \in Calls : Receive(c)
Deliver == \E id \in Ids : Arrive(id)

NextCorrelator == Call \/ Await \/ Deliver

SpecCorrelator == InitIdle /\ [][NextCorrelator]_vars

\* One call at a time: the next call starts when no call is waiting.
SerialCall == \E c \in Calls, random \in Ids :
    /\ \A d \in Calls : pc[d] \in {"idle", "done"}
    /\ StartCall(c, random)

NextSerial == SerialCall \/ Await \/ Deliver

\* The event loop runs the continuation of an await whose message is there.
SpecSerial == /\ InitIdle /\ [][NextSerial]_vars
              /\ \A c \in Calls : WF_vars(Receive(c))

---------------------------------------------------------------------------
(* makePrivateID as an operation *)

\* A first call, with any two values.
MakePrivateID == \E server_token \in JSValues, user_token \in JSValues :
    /\ pidCalls = 0
    /\ pidArgs' = <<server_token, user_token>>
    /\ pidCalls' = 1
    /\ pidResult' = makePrivateID(server_token, user_token)
    /\ UNCHANGED <<serverVars, clientVars, auxVars>>

\* The same call once more.
MakePrivateIDAgain ==
    /\ pidCalls = 1
    /\ pidCalls' = 2
    /\ pidResult' = makePrivateID(pidArgs[1], pidArgs[2])
    /\ UNCHANGED <<pidArgs, serverVars, clientVars, auxVars>>

NextPrivateID == MakePrivateID \/ MakePrivateIDAgain

SpecPrivateID == InitIdle /\ [][NextPrivateID]_vars

---------------------------------------------------------------------------
(* allSessions *)

\* What allSessions may be called with; "omitted" is a call without argument.
ListArgs == {"omitted", "true", "false"}

\* The default parameter: activeOnly = true when the argument is omitted.
activeOnlyOf(arg) == IF arg = "omitted" THEN TRUE ELSE arg = "true"

\* The loop body: the record is pushed, or pushed only with a socket.
pushed(connectionObj, activeOnly) ==
    IF activeOnly THEN connectionObj.socket # null ELSE TRUE

\* The records of the connection IDs in cids, one connection ID after the
\* other, each array in its order.  The order in which for-in visits the
\* connection IDs is not modelled.
RECURSIVE collect(_, _, _)
collect(conns, cids, activeOnly) ==
    IF cids = {} THEN <<>>
    ELSE LET cid == CHOOSE c \in cids : TRUE
         IN SelectSeq(conns[cid], LAMBDA r : pushed(r, activeOnly))
               \o collect(conns, cids \ {cid}, activeOnly)

\* allSessions returning the sessions that have no socket.
allSessionsInactive(conns, activeOnly) ==
    IF activeOnly
    THEN collect([cid \in DOMAIN conns |->
                     SelectSeq(conns[cid], LAMBDA r : r.socket = null)],
                 DOMAIN conns, FALSE)
    ELSE collect(conns, DOMAIN conns, FALSE)

\* allSessions: returnArr.  With connections undefined the for-in loop has
\* nothing to visit.
allSessions(conns, activeOnly) == collect(conns, DOMAIN conns, activeOnly)

AllSessions == \E arg \in ListArgs :
    /\ op' = "allSessions"
    /\ listArg' = arg
    /\ sessions' = allSessions(connections, activeOnlyOf(arg))
    /\ UNCHANGED <<max_ws_per_ip, http_only_handshake, connectionsDefined,
                   connections, sessionObj, sent, ret,
                   clientVars, pidVars, handlerVars>>

\* The transport upgrade completes for a record: its socket is attached.
AttachSocket(item, count) ==
    /\ connections[item][count].socket = null
    /\ connections' = [connections EXCEPT ![item][count].socket = "socket"]
    /\ op' = "upgrade"
    /\ UNCHANGED <<max_ws_per_ip, http_only_handshake, connectionsDefined,
                   sessionObj, sent, ret, clientVars, pidVars, auxVars>>

Upgrade == \E item \in DOMAIN connections :
               \E count \in 1..Len(connections[item]) : AttachSocket(item, count)

\* The registry is listed once it has been built: handshakes and upgrades
\* come before the calls of allSessions.
Register == listArg = "none" /\ Handshake

Connect == listArg = "none" /\ Upgrade

NextSessions == Register \/ Connect \/ AllSessions

\* The largest capacity, the transport check switched off.
InitSessions ==
    /\ InitClient
    /\ InitPrivateID
    /\ InitRegistry
    /\ InitHandlers
    /\ InitListing
    /\ max_ws_per_ip = MaxCap
    /\ http_only_handshake = FALSE

SpecSessions == InitSessions /\ [][NextSessions]_vars

---------------------------------------------------------------------------
(* WSS_Handshake invocations sharing the server's event loop.  Each        *)
(* request is handed to the async function in its own turn; a turn runs    *)
(* until the function awaits or returns.  The invocation is cut here at    *)
(* the end of its duplicate scan, where it holds num_activeconnections and *)
(* has yet to read the identity's array.                                   *)

\* An await right after the duplicate scan.
yieldPointsAfterScan == {"scanned"}

\* The positions at which the body of WSS_Handshake awaits: it holds no
\* await expression.
yieldPoints == {}

\* The event loop may give invocation h a turn: every other invocation
\* that has started has returned or is suspended at an await.
mayRun(h) ==
    \A g \in Handlers \ {h} : hpc[g] = "scanned" => hpc[g] \in yieldPoints

\* A handshake request reaches the server and is queued for its turn.
RequestArrives(h, so) ==
    /\ hpc[h] = "idle"
    /\ \A g \in Handlers : g < h => hpc[g] # "idle"
    /\ hpc' = [hpc EXCEPT ![h] = "pending"]
    /\ hreq' = [hreq EXCEPT ![h] = so]
    /\ UNCHANGED <<hread, hnum, hsent, serverVars, clientVars, pidVars, listVars>>

\* Lines 10-35: the transport check, the creation of the registry object
\* and the duplicate scan.
Scan(h) ==
    LET so == hreq[h]
        user_token == so.requestObj.params.user_token
    IN
    /\ hpc[h] = "pending"
    \* every request is in the queue before the first turn is given
    /\ \A g \in Handlers : hpc[g] # "idle"
    /\ mayRun(h)
    /\ UNCHANGED <<hreq, max_ws_per_ip, http_only_handshake, connections,
                   op, sessionObj, sent, ret, clientVars, pidVars, listVars>>
    /\ IF wrongTransport(so.endpoint, http_only_handshake)
       THEN /\ hsent' = [hsent EXCEPT ![h] = <<sendError("WRONG_TRANSPORT",
                           "Session handshake must be made through HTTP / HTTPS service.",
                           noData)>>]
            /\ hpc' = [hpc EXCEPT ![h] = "done"]
            /\ UNCHANGED <<connectionsDefined, hread, hnum>>
       ELSE
       /\ connectionsDefined' = TRUE
       /\ IF tokenExists(connections, user_token)
          THEN /\ hsent' = [hsent EXCEPT ![h] = <<sendError("SESSION_CLOSE",
                              "User token already exists for your IP.", noData)>>]
               /\ hpc' = [hpc EXCEPT ![h] = "done"]
               /\ UNCHANGED <<hread, hnum>>
          ELSE /\ hpc' = [hpc EXCEPT ![h] = "scanned"]
               /\ hread' = [hread EXCEPT ![h] = connections]
               /\ hnum' = [hnum EXCEPT ![h] = countAll(connections)]
               /\ UNCHANGED hsent

\* Lines 36-77: the server token, the capacity check where there is one,
\* the insert and the response.
Admit(h, random) ==
    LET so == hreq[h]
        user_token == so.requestObj.params.user_token
        connectionID == makeConnectionID(so)
        server_token == random
        connectionObj == [user_token |-> user_token, socket |-> null,
                          server_token |-> server_token]
    IN
    /\ hpc[h] = "scanned"
    /\ mayRun(h)
    /\ hpc' = [hpc EXCEPT ![h] = "done"]
    /\ UNCHANGED <<hreq, hread, hnum, max_ws_per_ip, http_only_handshake,
                   connectionsDefined, op, sessionObj, sent, ret,
                   clientVars, pidVars, listVars>>
    /\ IF connectionID \notin DOMAIN connections
       THEN /\ connections' =
                  [item \in DOMAIN connections \cup {connectionID} |->
                      IF item = connectionID THEN <<connectionObj>>
                      ELSE connections[item]]
            /\ hsent' = [hsent EXCEPT ![h] = <<sendResult(
                  [message |-> "accept",
                   numconnections |-> 1,
                   maxconnections |-> max_ws_per_ip,
                   peerconnections |-> hnum[h] + 1,
                   server_token |-> server_token])>>]
       ELSE LET num_activeconnections == Len(connections[connectionID])
            IN IF num_activeconnections >= max_ws_per_ip
               THEN /\ hsent' = [hsent EXCEPT ![h] = <<sendError("SESSION_CLOSE",
                          "Too many connections from your IP.",
                          [numconnections |-> num_activeconnections,
                           maxconnections |-> max_ws_per_ip])>>]
                    /\ UNCHANGED connections
               ELSE /\ connections' =
                          [connections EXCEPT ![connectionID] =
                              Append(@, connectionObj)]
                    /\ hsent' = [hsent EXCEPT ![h] = <<sendResult(
                          [message |-> "accept",
                           numconnections |-> num_activeconnections + 1,
                           maxconnections |-> max_ws_per_ip,
                           peerconnections |-> num_activeconnections + 1,
                           server_token |-> server_token])>>]

Arrival == \E h \in Handlers, so \in HandshakeRequests : RequestArrives(h, so)

Turn == \E h \in Handlers : Scan(h)

Resume == \E h \in Handlers, random \in ServerTokens : Admit(h, random)

NextAtomic == Arrival \/ Turn \/ Resume

\* Every capacity, with the transport check switched on.
InitAtomic ==
    /\ InitClient
    /\ InitPrivateID
    /\ InitRegistry
    /\ InitHandlers
    /\ InitListing
    /\ max_ws_per_ip \in 0..MaxCap
    /\ http_only_handshake = TRUE

SpecAtomic == InitAtomic /\ [][NextAtomic]_vars

---------------------------------------------------------------------------
(* Vocabulary of the properties, stated on the registry and on the         *)
(* responses directly.                                                     *)

\* Every record of the registry, by its place: <<connection ID, index>>.
Places == UNION {{<<item, i>> : i \in 1..Len(connections[item])} :
                    item \in DOMAIN connections}

RecordAt(pl) == connections[pl[1]][pl[2]]

\* The number of records held for an identity (0 without an entry).
HeldFor(conns, identity) ==
    IF identity \in DOMAIN conns THEN Len(conns[identity]) ELSE 0

\* Some record, of whatever identity, carries the user token.
TokenHeld(conns, u) ==
    \E item \in DOMAIN conns : \E i \in DOMAIN conns[item] :
        conns[item][i].user_token = u

IdentityOf(so) ==
    LET s == IF so.endpoint \in {HTTP, HTTPS}
             THEN so.serverRequest.socket ELSE so.serverRequest._socket
    IN <<s.remoteFamily, ":", s.remoteAddress>>

OverHttp(so) == so.endpoint \in {HTTP, HTTPS}

IsWrongTransport(r) == r.kind = "error" /\ r.code = "WRONG_TRANSPORT"

IsDuplicateToken(r) ==
    /\ r.kind = "error"
    /\ r.code = "SESSION_CLOSE"
    /\ r.message = "User token already exists for your IP."

IsTooManyConnections(r) ==
    /\ r.kind = "error"
    /\ r.code = "SESSION_CLOSE"
    /\ r.message = "Too many connections from your IP."

IsAccept(r) == r.kind = "result" /\ r.result.message = "accept"

\* A handshake has just run and passed the transport check.
HandshakeRan == op = "WSS_Handshake" /\ Len(sent) = 1 /\ ~IsWrongTransport(sent[1])

---------------------------------------------------------------------------
(* C1: capacity invariant.  Whatever max_ws_per_ip is configured (0        *)
(* included) and whatever handshakes were processed, no identity holds     *)
(* more than max_ws_per_ip records.                                        *)
C1_CapacityInvariant ==
    \A item \in DOMAIN connections : Len(connections[item]) <= max_ws_per_ip

(* C2: capacity rejection.  A handshake that passes the transport check,   *)
(* carries a user token no record holds, and comes from an identity whose  *)
(* record count is at or above max_ws_per_ip, is answered with the         *)
(* too-many-connections error carrying numconnections = that count and     *)
(* maxconnections = max_ws_per_ip, and leaves the registry as it was.      *)
C2_CapacityRejection ==
    [][(/\ op' = "WSS_Handshake"
        /\ ~(http_only_handshake /\ ~OverHttp(sessionObj'))
        /\ ~TokenHeld(connections, sessionObj'.requestObj.params.user_token)
        /\ HeldFor(connections, IdentityOf(sessionObj')) >= max_ws_per_ip)
       => (/\ Len(sent') = 1
           /\ IsTooManyConnections(sent'[1])
           /\ sent'[1].data =
                 [numconnections |-> HeldFor(connections, IdentityOf(sessionObj')),
                  maxconnections |-> max_ws_per_ip]
           /\ connections' = connections)]_vars

(* C3: token uniqueness.  No two records of the registry, under one        *)
(* identity or under two, carry the same user_token.                       *)
C3_TokenUniqueness ==
    \A p \in Places, q \in Places :
        p # q => RecordAt(p).user_token # RecordAt(q).user_token

\* Two identities hold records and a reused token has just been turned away.
C3_Witness ==
    /\ HandshakeRan
    /\ IsDuplicateToken(sent[1])
    /\ Cardinality(DOMAIN connections) >= 2
    /\ Cardinality(Places) >= 2

(* C4: duplicate rejection.  A handshake that passes the transport check   *)
(* and whose user_token is carried by any record of any identity is        *)
(* answered with the duplicate-token error and inserts nothing, whether    *)
(* or not the requesting identity is at its cap.                           *)
C4_DuplicateRejection ==
    [][(/\ op' = "WSS_Handshake"
        /\ ~(http_only_handshake /\ ~OverHttp(sessionObj'))
        /\ TokenHeld(connections, sessionObj'.requestObj.params.user_token))
       => (/\ Len(sent') = 1
           /\ IsDuplicateToken(sent'[1])
           /\ ret' = "undefined"
           /\ connections' = connections)]_vars

\* A duplicate was turned away although the requesting identity is at its
\* cap, the token being held under another identity.
C4_Witness ==
    /\ HandshakeRan
    /\ IsDuplicateToken(sent[1])
    /\ max_ws_per_ip >= 1
    /\ HeldFor(connections, IdentityOf(sessionObj)) >= max_ws_per_ip
    /\ \E item \in DOMAIN connections \ {IdentityOf(sessionObj)} :
          \E i \in DOMAIN connections[item] :
             connections[item][i].user_token = sessionObj.requestObj.params.user_token

\* A record of the request's identity carries both claimed tokens.
BothMatch(conns, so) ==
    /\ IdentityOf(so) \in DOMAIN conns
    /\ \E i \in DOMAIN conns[IdentityOf(so)] :
          /\ conns[IdentityOf(so)][i].user_token = so.requestObj.params.user_token
          /\ conns[IdentityOf(so)][i].server_token = so.requestObj.params.server_token

\* A record of the request's identity carries one of the claimed tokens.
OneMatch(conns, so) ==
    /\ IdentityOf(so) \in DOMAIN conns
    /\ \E i \in DOMAIN conns[IdentityOf(so)] :
          \/ conns[IdentityOf(so)][i].user_token = so.requestObj.params.user_token
          \/ conns[IdentityOf(so)][i].server_token = so.requestObj.params.server_token

(* C5: validator correctness.  In every reachable registry state and for   *)
(* every identity and claimed token pair, handshakeOK returns true exactly *)
(* when a record of that identity carries both the claimed user_token and  *)
(* the claimed server_token; when records of the identity match one of the *)
(* two fields only, it returns false.                                      *)
C5_ValidatorCorrectness ==
    /\ \A so \in ValidationRequests :
          /\ (handshakeOK(connections, connectionsDefined, so) = "true")
                <=> BothMatch(connections, so)
          /\ (OneMatch(connections, so) /\ ~BothMatch(connections, so))
                => handshakeOK(connections, connectionsDefined, so) = "false"
    /\ op = "handshakeOK" =>
          /\ (ret = "true") <=> BothMatch(connections, sessionObj)
          /\ (OneMatch(connections, sessionObj) /\ ~BothMatch(connections, sessionObj))
                => ret = "false"

\* handshakeOK has just answered false to a request whose user_token is
\* held by the identity under another server_token.
C5_Witness ==
    /\ op = "handshakeOK"
    /\ ret = "false"
    /\ IdentityOf(sessionObj) \in DOMAIN connections
    /\ \E i \in DOMAIN connections[IdentityOf(sessionObj)] :
          /\ connections[IdentityOf(sessionObj)][i].user_token
                = sessionObj.requestObj.params.user_token
          /\ connections[IdentityOf(sessionObj)][i].server_token
                # sessionObj.requestObj.params.server_token

(* C6: admission response counts.  On every accepted handshake             *)
(* peerconnections and numconnections both equal the number of records the *)
(* requesting identity holds after the insert (1 for an identity's first   *)
(* record, whatever other identities hold), and maxconnections equals      *)
(* max_ws_per_ip.                                                          *)
C6_AdmissionCounts ==
    (HandshakeRan /\ IsAccept(sent[1])) =>
        /\ sent[1].result.peerconnections = HeldFor(connections, IdentityOf(sessionObj))
        /\ sent[1].result.numconnections = HeldFor(connections, IdentityOf(sessionObj))
        /\ sent[1].result.maxconnections = max_ws_per_ip

(* C10: transport check.  With http_only_handshake set, a handshake whose  *)
(* endpoint is not HTTP/HTTPS is answered with the wrong-transport error   *)
(* and nothing else, duplicate token or full identity notwithstanding, and *)
(* the registry is not touched; with http_only_handshake unset the same    *)
(* request goes on to the duplicate and capacity checks as an HTTP one     *)
(* does.                                                                   *)
C10_TransportCheck ==
    [][op' = "WSS_Handshake" =>
        /\ Len(sent') = 1
        /\ IsWrongTransport(sent'[1]) <=> (http_only_handshake /\ ~OverHttp(sessionObj'))
        /\ IsWrongTransport(sent'[1]) =>
              /\ ret' = "false"
              /\ connections' = connections
              /\ connectionsDefined' = connectionsDefined
        /\ ~IsWrongTransport(sent'[1]) =>
              /\ IsDuplicateToken(sent'[1])
                    <=> TokenHeld(connections, sessionObj'.requestObj.params.user_token)
              /\ ~IsDuplicateToken(sent'[1]) =>
                    (IsAccept(sent'[1]) \/ IsTooManyConnections(sent'[1]))]_vars

\* A websocket handshake was refused for its transport although its token
\* is a duplicate and its identity is at its cap.
C10_Witness ==
    /\ op = "WSS_Handshake"
    /\ Len(sent) = 1
    /\ IsWrongTransport(sent[1])
    /\ ~OverHttp(sessionObj)
    /\ TokenHeld(connections, sessionObj.requestObj.params.user_token)
    /\ max_ws_per_ip >= 1
    /\ HeldFor(connections, IdentityOf(sessionObj)) >= max_ws_per_ip

---------------------------------------------------------------------------
(* Vocabulary of the correlator properties *)

Waiting(c) == pc[c] \in {"awaitRPC", "awaitMessage"}

Last(s) == s[Len(s)]

\* The messages a call received before the last one.
Earlier(c) == {consumed[c][k] : k \in 1..(Len(consumed[c]) - 1)}

\* The messages some call has received.
Taken == UNION {{consumed[c][k] : k \in 1..Len(consumed[c])} : c \in Calls}

\* What call c received is a run of consecutive arrivals, none but the
\* last carrying its request ID, and the last is what it returned.
C7_Matched(c) ==
    /\ \A k \in 1..Len(consumed[c]) :
          /\ consumed[c][k] = arrived[consumed[c][k].n]
          /\ k > 1 => consumed[c][k].n = consumed[c][k - 1].n + 1
    /\ \A m \in Earlier(c) : m.id # requestID[c]
    /\ pc[c] = "done" =>
          /\ consumed[c] # <<>>
          /\ result[c] = Last(consumed[c])
          /\ result[c].id = requestID[c]
    /\ Waiting(c) => \A k \in 1..Len(consumed[c]) : consumed[c][k].id # requestID[c]
    /\ pc[c] = "idle" => consumed[c] = <<>>

\* Every message that arrived was received by a call or is still on the
\* socket.
C7_NothingSkipped ==
    \A n \in 1..Len(arrived) :
        \/ arrived[n] \in Taken
        \/ \E k \in 1..Len(inbound) : inbound[k] = arrived[n]

(* C7: correlator matching, calls running one at a time.  A call waiting   *)
(* for request ID R takes the messages of the stream in their order of     *)
(* arrival, none skipped; it discards each one whose id is not R, returns  *)
(* the first whose id is R, and takes nothing after it, so that later      *)
(* messages stay on the socket for the next call; and once a message with  *)
(* id R is on the socket, the call does return.                            *)
C7_CorrelatorMatching ==
    /\ [](\A c \in Calls : C7_Matched(c))
    /\ [](C7_NothingSkipped)
    /\ [][\A c \in Calls : pc[c] = "done" =>
             (pc'[c] = "done" /\ consumed'[c] = consumed[c] /\ result'[c] = result[c])]_vars
    /\ \A c \in Calls :
          (Waiting(c) /\ \E k \in 1..Len(inbound) : inbound[k].id = requestID[c])
             ~> (pc[c] = "done")

\* Messages X, Y, Z arrived; the call waiting for Y discarded X and returned
\* Y; Z is still on the socket.
C7_Witness ==
    \E c \in Calls :
        /\ pc[c] = "done"
        /\ Len(arrived) = 3
        /\ arrived[1].id # arrived[2].id
        /\ arrived[3].id \notin {arrived[1].id, arrived[2].id}
        /\ requestID[c] = arrived[2].id
        /\ consumed[c] = <<arrived[1], arrived[2]>>
        /\ inbound = <<arrived[3]>>

(* C8: correlator safety, calls overlapping at will.  A call that has      *)
(* returned has returned a message that arrived on the socket and whose id *)
(* is the request ID the call generated; a call that has received no such  *)
(* message has not returned, and a call is never in any state but idle,    *)
(* waiting or returned.                                                    *)
C8_CorrelatorSafety ==
    \A c \in Calls :
        /\ pc[c] \in {"idle", "awaitRPC", "awaitMessage", "done"}
        /\ pc[c] = "done" =>
              /\ result[c].id = requestID[c]
              /\ result[c].n \in 1..Len(arrived)
              /\ arrived[result[c].n] = result[c]
              /\ result[c] = Last(consumed[c])
        /\ (\A k \in 1..Len(consumed[c]) : consumed[c][k].id # requestID[c])
              => pc[c] # "done"
        /\ (\A n \in 1..Len(arrived) : arrived[n].id # requestID[c])
              => pc[c] # "done"

\* Two calls with different request IDs overlap; one has returned its own
\* reply after discarding a message carrying the other's ID, the other is
\* still waiting.
C8_Witness ==
    \E c \in Calls, d \in Calls :
        /\ pc[c] = "done"
        /\ Waiting(d)
        /\ requestID[c] # requestID[d]
        /\ Len(consumed[c]) = 2
        /\ consumed[c][1].id = requestID[d]

---------------------------------------------------------------------------
(* Vocabulary of the makePrivateID properties *)

NonEmptyString(v) == v.type = "string" /\ v.chars # <<>>

HasSeparator(v) == \E k \in 1..Len(v.chars) : v.chars[k] = ":"

Swapped == makePrivateID(pidArgs[2], pidArgs[1])

(* C9: order sensitivity of makePrivateID.  For non-empty strings s # u,   *)
(* the ':' separator allowed in them, makePrivateID(s, u) differs from     *)
(* makePrivateID(u, s) (SHA-256 taken as one-to-one); and a repeated call  *)
(* returns the value of the first.                                         *)
C9_OrderSensitivity ==
    pidCalls >= 1 =>
        /\ pidResult = makePrivateID(pidArgs[1], pidArgs[2])
        /\ (/\ NonEmptyString(pidArgs[1])
            /\ NonEmptyString(pidArgs[2])
            /\ pidArgs[1] # pidArgs[2]) => pidResult # Swapped

(* C9 as amended: the same for non-empty strings s # u neither of which    *)
(* contains the ':' separator.                                             *)
C9_OrderSensitivityNoSeparator ==
    pidCalls >= 1 =>
        /\ pidResult = makePrivateID(pidArgs[1], pidArgs[2])
        /\ (/\ NonEmptyString(pidArgs[1])
            /\ NonEmptyString(pidArgs[2])
            /\ ~HasSeparator(pidArgs[1])
            /\ ~HasSeparator(pidArgs[2])
            /\ pidArgs[1] # pidArgs[2]) => pidResult # Swapped

\* makePrivateID was called twice with two different separator-free
\* strings, one a prefix of the other, and returned a digest.
C9_Witness ==
    /\ pidCalls = 2
    /\ NonEmptyString(pidArgs[1])
    /\ NonEmptyString(pidArgs[2])
    /\ ~HasSeparator(pidArgs[1])
    /\ ~HasSeparator(pidArgs[2])
    /\ Len(pidArgs[1].chars) < Len(pidArgs[2].chars)
    /\ SubSeq(pidArgs[2].chars, 1, Len(pidArgs[1].chars)) = pidArgs[1].chars
    /\ pidResult # jsNull

---------------------------------------------------------------------------
(* C11: the validator fails closed.  In every reachable state, the one     *)
(* before any handshake included, handshakeOK for a request whose identity *)
(* has no registry entry or an empty record sequence returns false: it     *)
(* raises no error, and running it leaves the registry as it was.          *)
C11_ValidatorFailsClosed ==
    /\ \A so \in ValidationRequests :
           HeldFor(connections, IdentityOf(so)) = 0
               => handshakeOK(connections, connectionsDefined, so) = "false"
    /\ (op = "handshakeOK" /\ HeldFor(connections, IdentityOf(sessionObj)) = 0)
           => ret = "false"

---------------------------------------------------------------------------
\* A value makePrivateID can return from the hash: a string of hex digits.
IsDigest(v) == v.type = "string" /\ Len(v.chars) >= 1 /\ v.chars[1] = "sha256"

(* C12: makePrivateID on invalid input.  It returns null, never a digest,  *)
(* when server_token or user_token is missing, is not a string or is the   *)
(* empty string; it returns a digest for every pair of non-empty strings;  *)
(* and in either case the registry is left as it was.                      *)
C12_PrivateIDInvalidInput ==
    pidCalls >= 1 =>
        /\ (~NonEmptyString(pidArgs[1]) \/ ~NonEmptyString(pidArgs[2]))
              => (pidResult = jsNull /\ ~IsDigest(pidResult))
        /\ (NonEmptyString(pidArgs[1]) /\ NonEmptyString(pidArgs[2]))
              => (IsDigest(pidResult) /\ pidResult # jsNull)
        /\ connectionsDefined = FALSE
        /\ connections = <<>>

\* makePrivateID was given a non-empty server_token and the empty string
\* as user_token, and returned null.
C12_Witness ==
    /\ pidCalls >= 1
    /\ NonEmptyString(pidArgs[1])
    /\ pidArgs[2] = jsString(<<>>)
    /\ pidResult = jsNull

---------------------------------------------------------------------------
(* Vocabulary of the handshake invocations *)

Accepted(h) == hpc[h] = "done" /\ Len(hsent[h]) = 1 /\ IsAccept(hsent[h][1])

TurnedAway(h) == hpc[h] = "done" /\ Len(hsent[h]) = 1 /\ hsent[h][1].kind = "error"

(* C13: handshake atomicity.  However the turns of handshake requests that *)
(* arrived together are interleaved, an invocation's duplicate scan,       *)
(* capacity check and insert act as one step: while it stands between its  *)
(* scan and its insert no other invocation stands there too, and the       *)
(* registry is still the one its scan read.  Hence two such requests       *)
(* carrying one user_token are never both accepted, and two requests of    *)
(* one identity that has a single free slot are never both accepted.       *)
C13_HandshakeAtomicity ==
    /\ \A h \in Handlers : hpc[h] = "scanned" =>
           /\ connections = hread[h]
           /\ \A g \in Handlers \ {h} : hpc[g] # "scanned"
    /\ \A h \in Handlers, g \in Handlers :
           (h # g /\ Accepted(h) /\ Accepted(g)) =>
               /\ hreq[h].requestObj.params.user_token
                     # hreq[g].requestObj.params.user_token
               /\ (IdentityOf(hreq[h]) = IdentityOf(hreq[g]) /\ max_ws_per_ip >= 1)
                     => HeldFor(connections, IdentityOf(hreq[h])) <= max_ws_per_ip
    /\ \A p \in Places, q \in Places :
           p # q => RecordAt(p).user_token # RecordAt(q).user_token

\* Two requests of one identity arrived together with max_ws_per_ip = 1:
\* one was accepted, the other turned away for too many connections.
C13_Witness ==
    \E h \in Handlers, g \in Handlers :
        /\ h # g
        /\ max_ws_per_ip = 1
        /\ Accepted(h)
        /\ TurnedAway(g)
        /\ IdentityOf(hreq[h]) = IdentityOf(hreq[g])
        /\ IsTooManyConnections(hsent[g][1])

---------------------------------------------------------------------------
\* The messages call c received.
TakenBy(c) == {consumed[c][k] : k \in 1..Len(consumed[c])}

\* Call d received and discarded message m, which carries the request ID
\* of call c.
Stole(d, c, m) ==
    /\ d # c
    /\ pc[c] # "idle"
    /\ m \in TakenBy(d)
    /\ m.id = requestID[c]
    /\ m.id # requestID[d]

(* C14: reply stealing with two calls outstanding on one socket, each      *)
(* waiter filtering the inbound stream by itself.  A message goes to one   *)
(* waiter only; when that waiter is not the call whose request ID it       *)
(* carries the message is discarded, neither left on the socket nor handed *)
(* to the other call, and a call all of whose replies went that way does   *)
(* not return although its reply arrived.  Such an execution exists.       *)
C14_ReplyStealing ==
    /\ \A c \in Calls, d \in Calls : \A m \in TakenBy(d) :
          c # d =>
              /\ m \notin TakenBy(c)
              /\ \A k \in 1..Len(inbound) : inbound[k] # m
    /\ \A c \in Calls :
          (\A n \in 1..Len(arrived) :
               arrived[n].id = requestID[c]
                   => \E d \in Calls : Stole(d, c, arrived[n]))
              => pc[c] # "done"

\* Two calls with different request IDs wait together; the one reply to
\* the first has been received and discarded by the second, the socket
\* holds no further message.
C14_Witness ==
    \E c \in Calls, d \in Calls :
        /\ Waiting(c)
        /\ Waiting(d)
        /\ inbound = <<>>
        /\ \E n \in 1..Len(arrived) : arrived[n].id = requestID[c]
        /\ \A n \in 1..Len(arrived) :
               arrived[n].id = requestID[c] => Stole(d, c, arrived[n])

---------------------------------------------------------------------------
\* The records of an identity as a sequence (empty without an entry).
RecordsOf(conns, identity) ==
    IF identity \in DOMAIN conns THEN conns[identity] ELSE <<>>

(* C15: one algorithm for new and existing identities.  For every registry *)
(* state, user_token and max_ws_per_ip, a handshake that passes the        *)
(* transport and duplicate checks ends as "if count(identity) >=           *)
(* max_ws_per_ip then reject, else append and report the post-insert       *)
(* count" does, in its response and in the registry it leaves, whether the *)
(* identity had no entry, an empty sequence or a non-empty one.            *)
C15_OneAlgorithm ==
    [][(/\ op' = "WSS_Handshake"
        /\ ~(http_only_handshake /\ ~OverHttp(sessionObj'))
        /\ ~TokenHeld(connections, sessionObj'.requestObj.params.user_token))
       => LET identity == IdentityOf(sessionObj')
              count == HeldFor(connections, identity)
          IN /\ Len(sent') = 1
             /\ IF count >= max_ws_per_ip
                THEN /\ IsTooManyConnections(sent'[1])
                     /\ sent'[1].data = [numconnections |-> count,
                                         maxconnections |-> max_ws_per_ip]
                     /\ connections' = connections
                ELSE /\ IsAccept(sent'[1])
                     /\ sent'[1].result.numconnections = count + 1
                     /\ sent'[1].result.peerconnections = count + 1
                     /\ sent'[1].result.maxconnections = max_ws_per_ip
                     /\ RecordsOf(connections', identity) =
                           Append(RecordsOf(connections, identity),
                                  [user_token |-> sessionObj'.requestObj.params.user_token,
                                   socket |-> null,
                                   server_token |-> sent'[1].result.server_token])
                     /\ \A item \in DOMAIN connections \ {identity} :
                            RecordsOf(connections', item) = connections[item]]_vars

---------------------------------------------------------------------------
(* C16: admission frame.  An accepted handshake appends one record, made   *)
(* of the request's user_token, the server_token of the response and no    *)
(* socket, at the end of the requesting identity's sequence, which it      *)
(* creates if there is none; the records that were there, of this and of   *)
(* every other identity, keep their fields and their order; and a          *)
(* handshake that is not accepted leaves the registry as it was.           *)
C16_AdmissionFrame ==
    [][op' = "WSS_Handshake" =>
        LET identity == IdentityOf(sessionObj')
        IN IF Len(sent') = 1 /\ IsAccept(sent'[1])
           THEN /\ DOMAIN connections' = DOMAIN connections \cup {identity}
                /\ connections'[identity] =
                      Append(RecordsOf(connections, identity),
                             [user_token |-> sessionObj'.requestObj.params.user_token,
                              socket |-> null,
                              server_token |-> sent'[1].result.server_token])
                /\ \A item \in DOMAIN connections \ {identity} :
                       connections'[item] = connections[item]
           ELSE connections' = connections]_vars

\* A handshake was accepted for an identity that held a record already.
C16_Witness ==
    /\ HandshakeRan
    /\ IsAccept(sent[1])
    /\ HeldFor(connections, IdentityOf(sessionObj)) >= 2
    /\ connections[IdentityOf(sessionObj)][2].user_token
          = sessionObj.requestObj.params.user_token

---------------------------------------------------------------------------
\* The validation requests that claim user_token u.
Claiming(u) == {so \in ValidationRequests : so.requestObj.params.user_token = u}

(* C17: session binding.  Once a handshake of identity I with user_token u *)
(* has been accepted with server_token s, and whatever handshakes follow,  *)
(* handshakeOK answers true to (I, u, s), false to (J, u, s) for every     *)
(* identity J other than I, and false to (I, u, s') for every s' other     *)
(* than s.                                                                 *)
C17_SessionBinding ==
    /\ \A pl \in Places : \A so \in Claiming(RecordAt(pl).user_token) :
          LET I == pl[1]
              s == RecordAt(pl).server_token
              answer == handshakeOK(connections, connectionsDefined, so)
          IN /\ (IdentityOf(so) = I /\ so.requestObj.params.server_token = s)
                    => answer = "true"
             /\ (IdentityOf(so) # I /\ so.requestObj.params.server_token = s)
                    => answer = "false"
             /\ (IdentityOf(so) = I /\ so.requestObj.params.server_token # s)
                    => answer = "false"
    /\ (HandshakeRan /\ IsAccept(sent[1])) =>
          \E pl \in Places :
              /\ pl[1] = IdentityOf(sessionObj)
              /\ RecordAt(pl).user_token = sessionObj.requestObj.params.user_token
              /\ RecordAt(pl).server_token = sent[1].result.server_token
    /\ op = "handshakeOK" =>
          ret = handshakeOK(connections, connectionsDefined, sessionObj)

\* handshakeOK has just answered false to an identity that presented the
\* token pair another identity holds, that identity holding records too.
C17_Witness ==
    /\ op = "handshakeOK"
    /\ ret = "false"
    /\ HeldFor(connections, IdentityOf(sessionObj)) >= 1
    /\ \E pl \in Places :
          /\ pl[1] # IdentityOf(sessionObj)
          /\ RecordAt(pl).user_token = sessionObj.requestObj.params.user_token
          /\ RecordAt(pl).server_token = sessionObj.requestObj.params.server_token

---------------------------------------------------------------------------
(* C18: exactly one response.  Every WSS_Handshake invocation, whether it  *)
(* ends on the wrong transport, on a duplicate token, on too many          *)
(* connections or by accepting a new or an existing identity, sends one    *)
(* response for its request, a sendResult or a sendError and nothing       *)
(* besides; and it sends a sendResult exactly when it inserted a record.   *)
C18_ExactlyOneResponse ==
    [][op' = "WSS_Handshake" =>
        /\ Len(sent') = 1
        /\ sent'[1].kind \in {"result", "error"}
        /\ (sent'[1].kind = "result") <=> (countAll(connections') = countAll(connections) + 1)
        /\ (sent'[1].kind = "error") <=> (connections' = connections)
        /\ \/ IsWrongTransport(sent'[1])
           \/ IsDuplicateToken(sent'[1])
           \/ IsTooManyConnections(sent'[1])
           \/ IsAccept(sent'[1])]_vars

\* A handshake has just been answered with the one too-many-connections
\* error, its identity being at its cap.
C18_Witness ==
    /\ HandshakeRan
    /\ IsTooManyConnections(sent[1])
    /\ sent[1].data.numconnections >= 1
    /\ sent[1].data.numconnections = HeldFor(connections, IdentityOf(sessionObj))

---------------------------------------------------------------------------
(* Vocabulary of the session listing *)

\* How many times a record occurs in a sequence.
Occurrences(seq, r) == Cardinality({k \in 1..Len(seq) : seq[k] = r})

Attached == {pl \in Places : RecordAt(pl).socket # null}

(* C19: session listing.  allSessions(false) returns every record of every *)
(* identity once, as many elements as the identities' sequences hold       *)
(* together; allSessions(true), and allSessions() alike, returns of those  *)
(* the records whose socket is attached and no other, so nothing while no  *)
(* socket has been attached; and a call leaves the registry as it was.     *)
C19_SessionListing ==
    [][op' = "allSessions" =>
        /\ connections' = connections
        /\ connectionsDefined' = connectionsDefined
        /\ listArg' = "false" =>
              /\ Len(sessions') = countAll(connections)
              /\ \A pl \in Places : Occurrences(sessions', RecordAt(pl)) = 1
        /\ listArg' \in {"true", "omitted"} =>
              /\ Len(sessions') = Cardinality(Attached)
              /\ \A pl \in Places :
                     Occurrences(sessions', RecordAt(pl))
                         = IF pl \in Attached THEN 1 ELSE 0
              /\ Attached = {} => sessions' = <<>>]_vars

\* allSessions() was called without argument while one identity held a
\* record with a socket and a record without: it returned the first alone.
C19_Witness ==
    /\ op = "allSessions"
    /\ listArg = "omitted"
    /\ Len(sessions) = 1
    /\ \E pl \in Places, ql \in Places :
          /\ pl[1] = ql[1]
          /\ RecordAt(pl).socket # null
          /\ RecordAt(ql).socket = null
          /\ sessions[1] = RecordAt(pl)

===========================================================================
